---- MODULE Spec2Model ----
(***************************************************************************)
(* A model of opencortex/neuroengine/classifier.py: the Classifier wrapper *)
(* (train / cross_validate / evaluate / preprocess / predict /             *)
(* set_inference_mode), the module-level model registry `models` and the   *)
(* default scaler argument of train, which Python evaluates once.          *)
(*                                                                         *)
(* A recording is modelled by the list of event codes find_events reports  *)
(* for it; the i-th event has sample index i.  The external capabilities   *)
(* (MNE conversion and epoching, scikit-learn split / scaling /            *)
(* cross-validation / fit) are opaque steps that either succeed or raise;  *)
(* which one raises is an input of the call.                               *)
(***************************************************************************)
EXTENDS Integers, Sequences, FiniteSets, TLC

\* ------------------------------------------------------------------ bounds
MaxCode == 3          \* stimulus codes of the matcher runs are 1..MaxCode
MaxLen == 4           \* events per recording in the matcher runs
MaxRecLen == 2        \* events per recording in the lifecycle runs
MaxGroupLen == 3      \* events per recording in the runs of one prediction
MaxCalls == 3         \* calls of stop and send_message on one OSC stream
MaxHandled == 2       \* requests one OSC stream handles

\* ------------------------------------------------------ program constants
MarkerThreshold == 90     \* events[:, 2] < 90
training_class == 1       \* self.training_class
NonTarget == 3            \* events[...] != self.training_class -> 3

Instances == {"A", "B"}           \* two Classifier objects
ModelNames == {"LDA", "SVM"}      \* keys of the registry used by the runs
None == "None"
Unfitted == "unfitted"

\* ------------------------------------------------------------- recordings
RECURSIVE SeqsUpTo(_, _)
SeqsUpTo(S, n) ==
  IF n = 0 THEN {<<>>}
  ELSE LET shorter == SeqsUpTo(S, n - 1)
       IN shorter \cup {Append(s, x) : s \in {t \in shorter : Len(t) = n - 1}, x \in S}

\* event codes of a recording: stimulus codes and one non-trial marker
CodesUpTo(m) == (1..m) \cup {MarkerThreshold}
\* the stream of the specification's matcher example
ExampleStreams == {<<5, 1, 9, 2, 1, 2, 3, 4>>}
Streams == SeqsUpTo(CodesUpTo(MaxCode), MaxLen) \cup ExampleStreams
\* recordings of the lifecycle runs: the target code, one non-target code
\* and the marker
Recordings == SeqsUpTo({training_class, NonTarget, MarkerThreshold}, MaxRecLen)
\* the recording of one full presentation cycle
OneCycle == {<<training_class, NonTarget>>}

\* find_events: one event per code, ordered by sample index
find_events(data) == [i \in 1..Len(data) |-> [sample |-> i, code |-> data[i]]]

\* the retained events of the mutant: events <= 90 kept
retained_le(found) == SelectSeq(found, LAMBDA e : e.code <= MarkerThreshold)
\* events = events[events[:, 2] < 90]
retained(found) == SelectSeq(found, LAMBDA e : e.code < MarkerThreshold)

codes(events) == [i \in 1..Len(events) |-> events[i].code]
Range(s) == {s[i] : i \in 1..Len(s)}

\* ascending list of the members of a finite set of integers
RECURSIVE sorted(_)
sorted(S) ==
  IF S = {} THEN <<>>
  ELSE LET m == CHOOSE x \in S : \A y \in S : x <= y
       IN <<m>> \o sorted(S \ {m})

\* distinct codes in the order in which each is first seen
RECURSIVE first_seen(_)
first_seen(events) ==
  IF events = <<>> THEN <<>>
  ELSE LET n == Len(events)
           before == first_seen(SubSeq(events, 1, n - 1))
       IN IF events[n].code \in Range(before) THEN before
          ELSE Append(before, events[n].code)

\* np.unique(events[:, 2]): the distinct codes, sorted ascending
unique(events) == sorted(Range(codes(events)))

\* the values self.sequence can hold: [] or an np.unique result
StoredSequences(m) == {sorted(S) : S \in SUBSET (1..m)}

\* ------------------------------------------------------------- preprocess
\* the mode branch of the mutant: the sequence is relearned in every mode
learned_in_any_mode(mode, sequence, events) == unique(events)
\* the mode branch of the mutant: first-seen order instead of np.unique
learned_first_seen(mode, sequence, events) ==
  IF mode = "train" THEN first_seen(events) ELSE sequence
\* if self.mode == 'train': self.sequence = np.unique(events[:, 2])
\* elif self.mode == 'predict': self.sequence is only read
learned(mode, sequence, events) ==
  IF mode = "train" THEN unique(events) ELSE sequence

\* the loop of the mutant: a mismatch resets j but keeps the candidate
RECURSIVE match_loop_keep(_, _, _, _, _)
match_loop_keep(events, sequence, i, j, trial) ==
  IF i > Len(events) THEN trial
  ELSE IF events[i].code = sequence[j + 1]
       THEN IF j + 1 = Len(sequence)
            THEN Append(trial, events[i])
            ELSE match_loop_keep(events, sequence, i + 1, j + 1, Append(trial, events[i]))
       ELSE match_loop_keep(events, sequence, i + 1, 0, trial)
\* the loop of the mutant: a mismatching event is re-tested against sequence[0]
RECURSIVE match_loop_retest(_, _, _, _, _)
match_loop_retest(events, sequence, i, j, trial) ==
  IF i > Len(events) THEN trial
  ELSE IF events[i].code = sequence[j + 1]
       THEN IF j + 1 = Len(sequence)
            THEN Append(trial, events[i])
            ELSE match_loop_retest(events, sequence, i + 1, j + 1, Append(trial, events[i]))
       ELSE IF j > 0 THEN match_loop_retest(events, sequence, i, 0, <<>>)
       ELSE match_loop_retest(events, sequence, i + 1, 0, <<>>)
\* the for loop of the inference branch: trial_events when the loop ends,
\* started at event i with progress j and candidate trial
RECURSIVE match_loop(_, _, _, _, _)
match_loop(events, sequence, i, j, trial) ==
  IF i > Len(events) THEN trial
  ELSE IF events[i].code = sequence[j + 1]
       THEN IF j + 1 = Len(sequence)
            THEN Append(trial, events[i])                       \* break
            ELSE match_loop(events, sequence, i + 1, j + 1, Append(trial, events[i]))
       ELSE match_loop(events, sequence, i + 1, 0, <<>>)        \* j = 0; trial_events = []

\* the relabelling of the mutant: == in place of !=
relabel_targets(events) ==
  [i \in 1..Len(events) |->
     [sample |-> events[i].sample,
      code |-> IF events[i].code = training_class THEN NonTarget ELSE events[i].code]]
\* events[:, 2][events[:, 2] != self.training_class] = 3
relabel(events) ==
  [i \in 1..Len(events) |->
     [sample |-> events[i].sample,
      code |-> IF events[i].code /= training_class THEN NonTarget ELSE events[i].code]]

PrepFailures == {"none", "extract", "epoch"}

\* preprocess(self, data): fail names the external step that raises
\* ("extract": convert_to_mne / find_events, "epoch": Epochs / get_data).
\* The result holds the error raised ("" when none), the value of
\* self.sequence when the call ends, the events at line 175 (trial), and
\* the relabelled events handed to Epochs (epoched tells whether line 182
\* was reached).  Epochs raises when it is handed no event at all.
preprocess(self, data, fail) ==
  LET events == retained(find_events(data))
      sequence == learned(self.mode, self.sequence, events)
      trial == IF self.mode = "train" \/ sequence = <<>> THEN events
               ELSE match_loop(events, sequence, 1, 0, <<>>)
      Raise(e, seq, t) == [err |-> e, sequence |-> seq, trial |-> t,
                           labels |-> <<>>, epoched |-> FALSE]
  IN IF fail = "extract" THEN Raise("ExtractError", self.sequence, <<>>)
     ELSE IF self.mode = "predict" /\ sequence = <<>>
          THEN Raise("IndexError", sequence, <<>>)
     ELSE IF self.mode = "predict" /\ Len(trial) < Len(sequence)
          THEN Raise("NotEnoughEvents", sequence, trial)
     ELSE [err |-> IF fail = "epoch" \/ trial = <<>> THEN "EpochingError" ELSE "",
           sequence |-> sequence, trial |-> trial,
           labels |-> relabel(trial), epoched |-> TRUE]

\* ------------------------------------------------------------------ state
VARIABLES
  models,          \* the module-level registry: name -> who fitted that model object
  default_scaler,  \* the StandardScaler() default argument of train: who fitted it
  inst,            \* the Classifier objects: fields of self, per instance
  inp,             \* the recording a matcher run is about to preprocess
  last,            \* the last call: operation, receiver, outcome
  result,          \* the value the last call returned, when it was a prediction
  osc              \* the OscStreamThread object and the threads that use it
vars == <<models, default_scaler, inst, inp, last, result, osc>>

\* Classifier.__init__ has not run for this object
NotCreated == [alive |-> FALSE, model |-> None, mode |-> "train", sequence |-> <<>>,
               scaler |-> None, trained |-> FALSE]
\* the fields __init__ sets; trained records that a train call has completed
Classifier_init_fields(name) ==
  [alive |-> TRUE, model |-> name, mode |-> "train", sequence |-> <<>>,
   scaler |-> None, trained |-> FALSE]

Call(op, c, outcome, err, pre, grouped) ==
  [op |-> op, self |-> c, outcome |-> outcome, err |-> err,
   trial |-> pre.trial, labels |-> pre.labels, epoched |-> pre.epoched,
   grouped |-> grouped]
NoPre == [trial |-> <<>>, labels |-> <<>>, epoched |-> FALSE]
NoCall == Call("none", "A", "returned", "", NoPre, FALSE)
\* OscStreamThread.__init__: the fields of the object (closed: the server
\* object's socket was closed), where the run thread (run) and the calling
\* thread (call) stand, and what has been observed so far (calls made,
\* requests handled, a stop call has returned, and the three events the
\* stop contract excludes)
OscStreamThread_init ==
  [_running |-> FALSE, server |-> None, client |-> None, closed |-> FALSE,
   run |-> "not started", call |-> "idle", calls |-> 0, handled |-> 0,
   stopped |-> FALSE, handled_after_stop |-> FALSE, used_cleared |-> FALSE,
   sent_after_stop |-> FALSE]
\* no prediction was returned
NoResult == [proba |-> FALSE, X |-> <<>>, out |-> {}, array |-> <<>>]

Init ==
  /\ models = [n \in ModelNames |-> Unfitted]
  /\ default_scaler = Unfitted
  /\ inst = [c \in Instances |-> NotCreated]
  /\ inp = <<>>
  /\ last = NoCall
  /\ result = NoResult
  /\ osc = OscStreamThread_init

\* --------------------------------------------------------------- __init__
\* Classifier(model, board_id): self.model = models[model], the registry's
\* object of that name, shared by every Classifier created with the name
Classifier_init(c, name) ==
  /\ ~inst[c].alive
  /\ inst' = [inst EXCEPT ![c] = Classifier_init_fields(name)]
  /\ last' = Call("init", c, "returned", "", NoPre, FALSE)
  /\ result' = NoResult
  /\ UNCHANGED <<models, default_scaler, inp, osc>>

\* ----------------------------------------------------- set_inference_mode
set_inference_mode(c, mode) ==
  /\ inst[c].alive
  /\ inst' = [inst EXCEPT ![c].mode = IF mode THEN "predict" ELSE "train"]
  /\ last' = Call("set_inference_mode", c, "returned", "", NoPre, FALSE)
  /\ result' = NoResult
  /\ UNCHANGED <<models, default_scaler, inp, osc>>

\* ------------------------------------------------------------------ train
TrainFailures == {"none", "extract", "epoch", "split", "scale", "cv", "fit"}
ScalerArgs == {"default", "own"}   \* scaler omitted, or a scaler object of the caller

\* the error train ends with when the step named by fail raises ("" when none)
train_error(pre, fail) ==
  IF pre.err /= "" THEN pre.err
  ELSE IF fail = "split" THEN "SplitError"
  ELSE IF fail = "scale" THEN "ScaleError"
  ELSE IF fail = "cv" THEN "CrossValError"
  ELSE IF fail = "fit" THEN "FitError"
  ELSE ""

\* X_train = scaler.fit_transform(X_train); self.scaler = scaler
scaler_reached(err) == err \notin {"ExtractError", "IndexError", "NotEnoughEvents",
                                   "EpochingError", "SplitError", "ScaleError"}
\* self.model.fit(X_train, y_train): reached only when cross_validate returned
fit_reached(err) == err = ""

\* train(self, data, scaler=StandardScaler()): the statements of train in
\* order, up to the step that raises
train(c, data, scaler, fail) ==
  LET self == inst[c]
      pre == preprocess(self, data, IF fail \in PrepFailures THEN fail ELSE "none")
      err == train_error(pre, fail)
  IN /\ self.alive
     /\ inst' = [inst EXCEPT ![c].sequence = pre.sequence,
                             ![c].scaler = IF scaler_reached(err) THEN scaler ELSE @,
                             ![c].trained = IF err = "" THEN TRUE ELSE @]
     /\ default_scaler' = IF scaler_reached(err) /\ scaler = "default" THEN c
                          ELSE default_scaler
     /\ models' = IF fit_reached(err) THEN [models EXCEPT ![self.model] = c] ELSE models
     /\ last' = Call("train", c, IF err = "" THEN "returned" ELSE "raised", err, pre, FALSE)
     /\ result' = NoResult
     /\ UNCHANGED <<inp, osc>>

\* --------------------------------------------------------------- evaluate
\* the error of self.scaler.transform(X) / self.model.predict(X) ("" when none)
model_error(self) ==
  IF self.scaler = None THEN "NoScaler"
  ELSE IF models[self.model] = Unfitted THEN "NotFitted"
  ELSE ""

\* the scaler of the mutant: transform fits the scaler again
transform_refit(fitted_by, c) == c
\* self.scaler.transform(X): who fitted the scaler, after the call
transform(fitted_by, c) == fitted_by

evaluate(c) ==
  LET err == model_error(inst[c])
  IN /\ inst[c].alive
     /\ default_scaler' = IF inst[c].scaler = "default"
                          THEN transform(default_scaler, c) ELSE default_scaler
     /\ last' = Call("evaluate", c, IF err = "" THEN "returned" ELSE "raised", err,
                      NoPre, FALSE)
     /\ result' = NoResult
     /\ UNCHANGED <<models, inst, inp, osc>>

\* ---------------------------------------------------------------- predict
\* the handler of the mutant: nothing is caught
caught_nothing(err) == FALSE
\* the handler of the mutant: only the matcher's error is caught
caught_match_only(err) == err = "NotEnoughEvents"
\* except Exception as e: every error raised by preprocess is caught
caught(err) == TRUE

\* ----------------------------------------------------- the model's output
\* The probabilities a fitted model gives are taken in halves: level l
\* stands for l/2.  ExpTable holds exp(0), exp(1/2), exp(1) in thousandths.
ExpTable == <<1000, 1649, 2718>>
Levels == {l - 1 : l \in DOMAIN ExpTable}
MaxLevel == Len(ExpTable) - 1
\* np.round(y_1, 4): scores are kept in units of 1/10000
ScoreUnit == 10000

\* the labels Epochs can produce (event_id={'T': 1, 'NT': 3}), which are
\* the classes LabelEncoder.fit finds
classes_ == {training_class, NonTarget}
\* le.fit_transform(labels): a label becomes its rank among the sorted classes
encode(label) == Cardinality({l \in classes_ : l < label})

\* self.model.predict_proba(X): one row per epoch, one column per encoded
\* class; X[i] is the level the model gives to Target for epoch i
predict_probabilities(X) ==
  [i \in 1..Len(X) |->
     [cls \in {encode(l) : l \in classes_} |->
        IF cls = encode(training_class) THEN X[i] ELSE MaxLevel - X[i]]]
\* self.model.predict(X): the encoded class with the larger probability
predict_class(X) ==
  [i \in 1..Len(X) |->
     IF X[i] >= MaxLevel - X[i] THEN encode(training_class) ELSE encode(NonTarget)]
\* y[:, col]
column(y, col) == [i \in 1..Len(y) |-> y[i][col]]
\* normalize(y_1, method='softmax'): exp(y_i) / sum_j exp(y_j), as a fraction
normalize(y) ==
  LET RECURSIVE total(_)
      total(n) == IF n = 0 THEN 0 ELSE total(n - 1) + ExpTable[y[n] + 1]
  IN [i \in 1..Len(y) |-> [num |-> ExpTable[y[i] + 1], den |-> total(Len(y))]]
\* np.round(y_1, 4), in units of 1/10000
np_round(y) ==
  [i \in 1..Len(y) |-> (2 * ScoreUnit * y[i].num + y[i].den) \div (2 * y[i].den)]
\* the index of the mutant: the last maximum
argmax_last(y) ==
  (CHOOSE i \in 1..Len(y) :
     /\ \A j \in 1..Len(y) : y[j] <= y[i]
     /\ \A j \in (i + 1)..Len(y) : y[j] < y[i]) - 1
\* np.argmax(y): the 0-based index of the first maximum
argmax(y) ==
  (CHOOSE i \in 1..Len(y) :
     /\ \A j \in 1..Len(y) : y[j] <= y[i]
     /\ \A j \in 1..(i - 1) : y[j] < y[i]) - 1

\* group_predictions(self, X, proba): the dict returned, as its set of
\* (key, value) pairs; a later assignment to a key replaces an earlier one
group_predictions(seq, X, proba) ==
  LET y == IF proba THEN predict_probabilities(X) ELSE predict_class(X)
      y_1 == IF proba THEN np_round(normalize(column(y, 1))) ELSE y
      kept == {idx \in 1..Len(seq) : \A later \in (idx + 1)..Len(seq) : seq[later] /= seq[idx]}
  IN {<<"class", argmax(y_1) + 1>>} \cup {<<ToString(seq[idx]), y_1[idx]>> : idx \in kept}

\* the value predict returns without grouping: one row per epoch
ungrouped(X, proba) ==
  IF proba THEN [i \in 1..Len(X) |-> <<predict_probabilities(X)[i][0],
                                         predict_probabilities(X)[i][1]>>]
  ELSE [i \in 1..Len(X) |-> <<predict_class(X)[i]>>]

\* predict(self, data, proba, group); the model's output for the epochs is
\* any assignment of the levels Ls to them
predict(c, data, fail, proba, group, Ls) ==
  LET self == inst[c]
      pre == preprocess(self, data, fail)
      err == IF pre.err /= "" THEN pre.err ELSE model_error(self)
      outcome == IF pre.err /= "" THEN (IF caught(pre.err) THEN "none" ELSE "raised")
                 ELSE IF err /= "" THEN "raised" ELSE "returned"
  IN /\ self.alive
     /\ inst' = [inst EXCEPT ![c].sequence = pre.sequence]
     /\ default_scaler' = IF pre.err = "" /\ self.scaler = "default"
                          THEN transform(default_scaler, c) ELSE default_scaler
     /\ last' = Call("predict", c, outcome, err, pre, group)
     /\ \E X \in [1..Len(pre.labels) -> Ls] :
          result' = IF outcome /= "returned" THEN NoResult
                    ELSE [proba |-> proba, X |-> X,
                          out |-> IF group THEN group_predictions(pre.sequence, X, proba)
                                  ELSE {},
                          array |-> IF group THEN <<>> ELSE ungrouped(X, proba)]
     /\ UNCHANGED <<models, inp, osc>>

\* ---------------------------------------------------------- specification
\* the calls a program can make on the objects of Objs with recordings of Recs
Calls(Objs, Recs, Probas, Ls) ==
  \/ \E c \in Objs, name \in ModelNames : Classifier_init(c, name)
  \/ \E c \in Objs, mode \in BOOLEAN : set_inference_mode(c, mode)
  \/ \E c \in Objs, data \in Recs, scaler \in ScalerArgs, fail \in TrainFailures :
        train(c, data, scaler, fail)
  \/ \E c \in Objs : evaluate(c)
  \/ \E c \in Objs, data \in Recs, fail \in PrepFailures, proba \in Probas,
          group \in BOOLEAN :
        predict(c, data, fail, proba, group, Ls)

\* one Classifier object and the calls on it
\* (the model's output is followed in SpecGroup; here it is the same for
\* every epoch)
Next == Calls({"A"}, Recordings, {TRUE}, {MaxLevel})

Spec == Init /\ [][Next]_vars

\* two Classifier objects, each call made with the recording of one cycle
NextShared == Calls(Instances, OneCycle, {TRUE}, {MaxLevel})

SpecShared == Init /\ [][NextShared]_vars

\* ------------------------------------------------- runs of the matcher alone
\* one Classifier in any mode with any sequence a train can have stored,
\* about to preprocess any recording
InitMatch ==
  /\ models = [n \in ModelNames |-> Unfitted]
  /\ default_scaler = Unfitted
  /\ \E mode \in {"train", "predict"}, sequence \in StoredSequences(MaxCode) :
        inst = [c \in Instances |->
                  IF c = "A" THEN [Classifier_init_fields("LDA") EXCEPT
                                     !.mode = mode, !.sequence = sequence]
                  ELSE NotCreated]
  /\ inp \in Streams
  /\ last = NoCall
  /\ result = NoResult
  /\ osc = OscStreamThread_init

preprocess_call(c, fail) ==
  LET pre == preprocess(inst[c], inp, fail)
  IN /\ inst[c].alive
     /\ last.op = "none"
     /\ inst' = [inst EXCEPT ![c].sequence = pre.sequence]
     /\ last' = Call("preprocess", c, IF pre.err = "" THEN "returned" ELSE "raised",
                      pre.err, pre, FALSE)
     /\ result' = NoResult
     /\ UNCHANGED <<models, default_scaler, inp, osc>>

NextMatch == \E c \in Instances, fail \in PrepFailures : preprocess_call(c, fail)

SpecMatch == InitMatch /\ [][NextMatch]_vars

\* --------------------------------------------- runs of one prediction alone
\* the recordings a prediction is made on
GroupStreams == SeqsUpTo(CodesUpTo(MaxCode), MaxGroupLen)
\* one Classifier whose train has completed (scaler stored, model fitted),
\* in either mode and with any sequence a preprocess can have stored,
\* about to predict on any recording
InitGroup ==
  /\ models = [n \in ModelNames |-> IF n = "LDA" THEN "A" ELSE Unfitted]
  /\ default_scaler = Unfitted
  /\ \E mode \in {"train", "predict"}, sequence \in StoredSequences(MaxCode) :
        inst = [c \in Instances |->
                  IF c = "A" THEN [Classifier_init_fields("LDA") EXCEPT
                                     !.mode = mode, !.sequence = sequence,
                                     !.scaler = "own", !.trained = TRUE]
                  ELSE NotCreated]
  /\ inp \in GroupStreams
  /\ last = NoCall
  /\ result = NoResult
  /\ osc = OscStreamThread_init

predict_call(c, fail, proba, group) ==
  /\ last.op = "none"
  /\ predict(c, inp, fail, proba, group, Levels)

NextGroup ==
  \E c \in Instances, fail \in PrepFailures, proba \in BOOLEAN, group \in BOOLEAN :
     predict_call(c, fail, proba, group)

SpecGroup == InitGroup /\ [][NextGroup]_vars

\* ------------------------------------------------------- the OSC stream
\* the steps below leave the classifiers alone
ClassifierUnchanged == UNCHANGED <<models, default_scaler, inst, inp, last, result>>

\* QThread.start(): run begins on its own thread
start ==
  /\ osc.run = "not started"
  /\ osc' = [osc EXCEPT !.run = "37"]
  /\ ClassifierUnchanged

\* run(self), one step per statement; bound tells whether the listen socket
\* could be bound (socket.error otherwise), request that a message arrives
\* while handle_request waits, woken that the wait on a closed socket ends
\* with socket.error
run(bound, request, woken) ==
  /\ \/ /\ osc.run = "37"
        /\ osc' = IF bound THEN [osc EXCEPT !.server = "server", !.closed = FALSE,
                                            !.run = "38"]
                  ELSE [osc EXCEPT !.run = "done"]
     \/ /\ osc.run = "38"
        /\ osc' = [osc EXCEPT !.client = "run", !.run = "39"]
     \/ /\ osc.run = "39"
        /\ osc' = [osc EXCEPT !._running = TRUE, !.run = "43"]
     \/ /\ osc.run = "43"
        /\ osc' = [osc EXCEPT !.run = IF osc._running THEN "44" ELSE "done"]
     \/ \* self.server is read: None has no handle_request (AttributeError,
        \* not caught by 'except socket.error')
        /\ osc.run = "44"
        /\ osc' = IF osc.server = None
                  THEN [osc EXCEPT !.run = "crashed", !.used_cleared = TRUE]
                  ELSE [osc EXCEPT !.run = "44 call"]
     \/ \* handle_request is entered: on a closed socket it raises at once
        /\ osc.run = "44 call"
        /\ osc' = IF osc.closed
                  THEN [osc EXCEPT !.run = IF woken THEN "done" ELSE "crashed",
                                   !.used_cleared = TRUE]
                  ELSE [osc EXCEPT !.run = "44 wait"]
     \/ \* a message arrives and is dispatched to _default_handler
        /\ osc.run = "44 wait"
        /\ ~osc.closed
        /\ request
        /\ osc.handled < MaxHandled
        /\ osc' = [osc EXCEPT !.handled = @ + 1, !.run = "43",
                              !.handled_after_stop = @ \/ osc.stopped]
     \/ \* the socket was closed under the wait: socket.error, or the wait
        \* goes on
        /\ osc.run = "44 wait"
        /\ osc.closed
        /\ woken
        /\ osc' = [osc EXCEPT !.run = "done"]
  /\ ClassifierUnchanged

\* stop(self), called on the calling thread, one step per statement
stop ==
  /\ \/ /\ osc.call = "idle"
        /\ osc.calls < MaxCalls
        /\ osc' = [osc EXCEPT !.call = "60", !.calls = @ + 1]
     \/ /\ osc.call = "60"
        /\ osc' = [osc EXCEPT !._running = FALSE, !.call = "61"]
     \/ /\ osc.call = "61"
        /\ osc' = [osc EXCEPT !.call = IF osc.server /= None THEN "62" ELSE "64"]
     \/ /\ osc.call = "62"
        /\ osc' = [osc EXCEPT !.closed = TRUE, !.call = "63"]
     \/ /\ osc.call = "63"
        /\ osc' = [osc EXCEPT !.server = None, !.call = "64"]
     \/ /\ osc.call = "64"
        /\ osc' = [osc EXCEPT !.client = None, !.call = "idle", !.stopped = TRUE]
  /\ ClassifierUnchanged

\* send_message(self, address, data, port) with one entry in data, called
\* on the calling thread, one step per statement
send_message ==
  /\ \/ /\ osc.call = "idle"
        /\ osc.calls < MaxCalls
        /\ osc' = [osc EXCEPT !.call = "51", !.calls = @ + 1]
     \/ /\ osc.call = "51"
        /\ osc' = [osc EXCEPT !.call = IF osc.client /= None THEN "52" ELSE "idle"]
     \/ /\ osc.call = "52"
        /\ osc' = [osc EXCEPT !.client = "send", !.call = "57"]
     \/ /\ osc.call = "57"
        /\ osc' = [osc EXCEPT !.call = "idle",
                              !.sent_after_stop = @ \/ osc.stopped]
  /\ ClassifierUnchanged

NextOsc ==
  \/ start
  \/ \E bound \in BOOLEAN, request \in BOOLEAN, woken \in BOOLEAN :
        run(bound, request, woken)
  \/ stop
  \/ send_message

SpecOsc == Init /\ [][NextOsc]_vars

\* ================================================================ claims
\* the fields of the receiver of the last call, after that call
Self == inst[last.self]
\* the retained events of the recording a matcher run preprocesses
Retained == retained(find_events(inp))
\* the sequence occurs in events as a run of adjacent events starting at p
RunAt(events, sequence, p) ==
  /\ p + Len(sequence) - 1 <= Len(events)
  /\ \A k \in 1..Len(sequence) : events[p + k - 1].code = sequence[k]
ContainsRun(events, sequence) == \E p \in 1..Len(events) : RunAt(events, sequence, p)
FirstRun(events, sequence) ==
  LET p == CHOOSE q \in 1..Len(events) :
             /\ RunAt(events, sequence, q)
             /\ \A r \in 1..(q - 1) : ~RunAt(events, sequence, r)
  IN SubSeq(events, p, p + Len(sequence) - 1)
\* the last call was an inference-mode preprocess that reached the matcher
MatcherRan ==
  /\ last.op = "preprocess"
  /\ Self.mode = "predict"
  /\ Self.sequence /= <<>>
  /\ last.err /= "ExtractError"

\* C1: whenever the retained events contain the stimulus sequence as a run
\* of adjacent events, inference-mode preprocess does not fail with 'not
\* enough events' and the events it matches are exactly the first such run.
C1_FirstRunIsMatched ==
  (MatcherRan /\ ContainsRun(Retained, Self.sequence)) =>
     /\ last.err /= "NotEnoughEvents"
     /\ last.trial = FirstRun(Retained, Self.sequence)

\* C2: a predict call in which the sequence is not matched returns None,
\* hands nothing on to epoching, raises nothing, and leaves mode, sequence,
\* scaler and model as they were.
C2_NoMatchIsNoResult ==
  [][(last'.op = "predict" /\ last'.err = "NotEnoughEvents") =>
       /\ last'.outcome = "none"
       /\ ~last'.epoched
       /\ inst' = inst
       /\ models' = models
       /\ default_scaler' = default_scaler]_vars
\* C2 witness: a trained classifier whose predict found only part of the sequence
C2_Witness ==
  /\ last.op = "predict"
  /\ last.err = "NotEnoughEvents"
  /\ last.outcome = "none"
  /\ Self.trained
  /\ last.trial /= <<>>

PreprocessErrors == {"ExtractError", "IndexError", "NotEnoughEvents", "EpochingError"}

\* C3 as stated: in a predict call every error other than the matcher's
\* 'not enough events' reaches the caller as an error.
C3_OnlyMatchErrorCaught ==
  (last.op = "predict" /\ last.err \notin {"", "NotEnoughEvents"}) =>
     last.outcome = "raised"
\* C3 as amended: every error raised inside preprocess during a predict call
\* (the matcher's, and also a failure of extraction or epoching) becomes
\* 'no result'; only an error raised after preprocess reaches the caller.
C3_PreprocessErrorsCaught ==
  last.op = "predict" =>
     /\ last.err \in PreprocessErrors => last.outcome = "none"
     /\ last.err \in {"NoScaler", "NotFitted"} => last.outcome = "raised"
     /\ last.err = "" => last.outcome = "returned"
\* C3 witness: the epoching step failed inside a trained classifier's predict
C3_Witness ==
  /\ last.op = "predict"
  /\ last.err = "EpochingError"
  /\ last.outcome = "none"
  /\ Self.trained

\* C4: after a successful train, no predict call changes the stored
\* sequence, whatever the mode flag is.
C4_PredictNeverRelearns ==
  [][(last'.op = "predict" /\ inst[last'.self].trained) =>
       inst'[last'.self].sequence = inst[last'.self].sequence]_vars

\* C5: a predict call made in inference mode leaves the stored sequence
\* as it was, whether it succeeds or fails, grouped or not.
C5_ModeIsolation ==
  [][(last'.op = "predict" /\ inst[last'.self].mode = "predict") =>
       inst'[last'.self].sequence = inst[last'.self].sequence]_vars
\* C5 witness: a grouped predict that succeeded in inference mode on a
\* trained classifier
C5_Witness ==
  /\ last.op = "predict"
  /\ Self.mode = "predict"
  /\ Self.trained
  /\ Len(Self.sequence) > 1
  /\ last.outcome = "returned"
  /\ last.grouped

\* the last call was a training-mode preprocess that reached the mode branch
LearnerRan ==
  /\ last.op = "preprocess"
  /\ Self.mode = "train"
  /\ last.err /= "ExtractError"
IsAscending(s) == \A i \in 1..(Len(s) - 1) : s[i] < s[i + 1]

\* C6 as stated: in training mode the stored sequence lists the distinct
\* retained codes in the order in which each is first seen.
C6_FirstSeenOrder == LearnerRan => Self.sequence = first_seen(Retained)
\* C6 as amended: in training mode the stored sequence lists the distinct
\* retained codes (code < 90) in ascending order of code.
C6_AscendingOrder ==
  LearnerRan =>
     /\ IsAscending(Self.sequence)
     /\ Range(Self.sequence) = {c \in Range(inp) : c < MarkerThreshold}
\* C6 witness: a recording whose codes are first seen in non-ascending order
C6_Witness ==
  /\ LearnerRan
  /\ last.err = ""
  /\ Self.sequence /= first_seen(Retained)

\* who fitted the scaler object self.scaler refers to
scaler_state(self, c) ==
  IF self.scaler = "default" THEN default_scaler
  ELSE IF self.scaler = "own" THEN c ELSE None

\* C7: sequence, scaler and model change only in a train call that
\* completes; a failing train, a predict and an evaluate leave them alone.
C7_OnlySuccessfulTrainWrites ==
  [][(\E c \in Instances :
         \/ inst'[c].sequence /= inst[c].sequence
         \/ inst'[c].scaler /= inst[c].scaler
         \/ models' /= models
         \/ default_scaler' /= default_scaler) =>
       (last'.op = "train" /\ last'.outcome = "returned")]_vars

\* C8: a failure of cross-validation does not make train raise; the final
\* model is still fitted.
C8_CrossValNotFatal ==
  ~(last.op = "train" /\ last.err = "CrossValError" /\ last.outcome = "raised")

\* C9: evaluate or predict on a classifier with no completed train never
\* returns a score or a prediction.
C9_UntrainedNeverReturns ==
  (last.op \in {"evaluate", "predict"} /\ ~Self.trained) =>
     last.outcome /= "returned"

\* C10: a train call on B changes neither the fitted model nor the fitted
\* scaler that the trained classifier A uses.
C10_TrainedModelIsOwned ==
  [][(last'.op = "train" /\ last'.self = "B" /\ inst["A"].trained) =>
       /\ models'[inst["A"].model] = models[inst["A"].model]
       /\ scaler_state(inst["A"], "A")' = scaler_state(inst["A"], "A")]_vars

\* the label codes of the relabelled events of the last call
LabelSet == Range(codes(last.labels))
CountOf(events, c) == Cardinality({i \in 1..Len(events) : events[i].code = c})
\* the last call was a preprocess that reached the relabelling at line 178
Relabelled == last.op = "preprocess" /\ last.epoched

\* C12 as stated: after relabelling the set of labels is exactly {c, 3},
\* every event carries c or 3, the two counts add up to the number of
\* events, and an event is labelled c exactly when its code was c.
C12_ExactlyTwoLabels ==
  Relabelled =>
     /\ LabelSet = {training_class, NonTarget}
     /\ CountOf(last.labels, training_class) + CountOf(last.labels, NonTarget)
          = Len(last.trial)
     /\ \A i \in 1..Len(last.trial) :
          last.labels[i].code = training_class <=> last.trial[i].code = training_class
\* C12 as amended: after relabelling every event carries c or 3 (the set
\* of labels is a subset of {c, 3}, and is exactly {c, 3} only when the
\* events hold both a code equal to c and a code different from c), the two
\* counts add up to the number of events, each event keeps its sample
\* index, and an event is labelled c exactly when its code was c.
C12_AtMostTwoLabels ==
  Relabelled =>
     /\ Len(last.labels) = Len(last.trial)
     /\ LabelSet \subseteq {training_class, NonTarget}
     /\ LabelSet = {training_class, NonTarget} <=>
          /\ \E i \in 1..Len(last.trial) : last.trial[i].code = training_class
          /\ \E i \in 1..Len(last.trial) : last.trial[i].code /= training_class
     /\ CountOf(last.labels, training_class) + CountOf(last.labels, NonTarget)
          = Len(last.trial)
     /\ \A i \in 1..Len(last.trial) :
          /\ last.labels[i].sample = last.trial[i].sample
          /\ last.labels[i].code = training_class <=> last.trial[i].code = training_class
\* C12 witness: a non-target code other than 3 was relabelled and both
\* labels occur
C12_Witness ==
  /\ Relabelled
  /\ LabelSet = {training_class, NonTarget}
  /\ \E i \in 1..Len(last.trial) : last.trial[i].code \notin {training_class, NonTarget}

\* the progress index j after each event of a single pass: j starts at 0,
\* an event equal to sequence[j] advances it, any other event resets it to
\* 0 without being looked at again, and the pass stops once j = k
Progress(events, sequence) ==
  LET k == Len(sequence)
      J[i \in 0..Len(events)] ==
        IF i = 0 THEN 0
        ELSE IF J[i - 1] = k THEN k
        ELSE IF events[i].code = sequence[J[i - 1] + 1] THEN J[i - 1] + 1
        ELSE 0
  IN J
samples(events) == [i \in 1..Len(events) |-> events[i].sample]

\* C13: the matcher is the single pass with reset-without-retest: its
\* candidate is the last j events of the pass, it stops at the first event
\* where j reaches k, and otherwise fails; sequence [1,2,3] finds nothing
\* in [1,1,2,3] and finds the last 1,2,3 in [5,1,9,2,1,2,3,4].
C13_SinglePassNoRetest ==
  MatcherRan =>
     LET J == Progress(Retained, Self.sequence)
         k == Len(Self.sequence)
         n == Len(Retained)
         Done == {i \in 1..n : J[i] = k}
     IN /\ Done /= {} =>
             LET i == CHOOSE x \in Done : \A y \in Done : x <= y
             IN /\ last.err /= "NotEnoughEvents"
                /\ last.trial = SubSeq(Retained, i - k + 1, i)
        /\ Done = {} =>
             /\ last.err = "NotEnoughEvents"
             /\ last.trial = SubSeq(Retained, n - J[n] + 1, n)
        /\ (Self.sequence = <<1, 2, 3>> /\ inp = <<1, 1, 2, 3>>) =>
             last.err = "NotEnoughEvents"
        /\ (Self.sequence = <<1, 2, 3>> /\ inp = <<5, 1, 9, 2, 1, 2, 3, 4>>) =>
             samples(last.trial) = <<5, 6, 7>>
\* C13 witness: an event equal to sequence[0] arrived while j > 0, and the
\* run that starts at it was missed
C13_Witness ==
  /\ MatcherRan
  /\ Self.sequence = <<1, 2, 3>>
  /\ inp = <<1, 1, 2, 3>>
  /\ last.err = "NotEnoughEvents"

\* C14: a successful match has exactly k events, the i-th with code
\* sequence[i], adjacent in the retained events, in increasing sample
\* order and all with code < 90; a pass that ends with fewer than k
\* candidate events raises 'not enough events' and hands nothing to
\* epoching.
C14_MatcherSound ==
  MatcherRan =>
     LET k == Len(Self.sequence)
     IN /\ last.err = "NotEnoughEvents" <=> Len(last.trial) < k
        /\ ~ContainsRun(Retained, Self.sequence) => last.err = "NotEnoughEvents"
        /\ last.err = "NotEnoughEvents" => (~last.epoched /\ last.labels = <<>>)
        /\ last.err /= "NotEnoughEvents" =>
             /\ Len(last.trial) = k
             /\ codes(last.trial) = Self.sequence
             /\ \E p \in 1..Len(Retained) : last.trial = SubSeq(Retained, p, p + k - 1)
             /\ \A i \in 1..(k - 1) : last.trial[i].sample < last.trial[i + 1].sample
             /\ \A i \in 1..k : last.trial[i].code < MarkerThreshold
             /\ last.epoched
             /\ Len(last.labels) = k
\* C14 witness: a match found after an abandoned attempt, with a dropped
\* marker between two of its events
C14_Witness ==
  /\ MatcherRan
  /\ last.err = ""
  /\ Len(last.trial) > 1
  /\ last.trial[1].sample > 1
  /\ \E i \in 1..(Len(last.trial) - 1) :
        last.trial[i + 1].sample > last.trial[i].sample + 1

\* the last call was a grouped predict that returned its dict
GroupReturned ==
  /\ last.op = "predict"
  /\ last.grouped
  /\ last.outcome = "returned"
\* the value stored under key in the returned dict
Entry(key) == (CHOOSE e \in result.out : e[1] = key)[2]
Keys == {e[1] : e \in result.out}
\* the scores of the returned dict in the order of the stored sequence
Scores == [i \in 1..Len(Self.sequence) |-> Entry(ToString(Self.sequence[i]))]
\* C11: in inference mode the returned 'class' is 1 plus the 0-based index
\* of the first maximum of the scores, and the dict holds, besides
\* 'class', exactly one key per sequence code, the i-th code mapped to the
\* score of the i-th matched epoch.
C11_ClassIsFirstMaximum ==
  (GroupReturned /\ Self.mode = "predict") =>
     LET k == Len(Self.sequence)
         c == Entry("class")
     IN /\ Len(last.labels) = k
        /\ Keys = {"class"} \cup {ToString(Self.sequence[i]) : i \in 1..k}
        /\ Cardinality(result.out) = k + 1
        /\ c \in 1..k
        /\ \A i \in 1..k : Scores[i] <= Scores[c]
        /\ \A i \in 1..(c - 1) : Scores[i] < Scores[c]
        /\ \A i \in 1..k :
             Scores[i] = IF result.proba
                         THEN np_round(normalize(column(predict_probabilities(result.X), 1)))[i]
                         ELSE predict_class(result.X)[i]
\* C11 witness: a grouped prediction over three matched epochs where two
\* scores tie for the maximum and the first of them is not the first epoch
C11_Witness ==
  /\ GroupReturned
  /\ Self.mode = "predict"
  /\ Len(Self.sequence) = 3
  /\ Entry("class") = 2
  /\ Scores[3] = Scores[2]
  /\ Scores[1] < Scores[2]

\* C15: in grouped probability mode the decided class is the stimulus whose
\* epoch the model gave the highest Target probability.
C15_ClassHasHighestTarget ==
  (GroupReturned /\ result.proba /\ Self.mode = "predict") =>
     \A i \in 1..Len(result.X) : result.X[i] <= result.X[Entry("class")]

\* C17: every grouped predict result that is returned has 'class' in 1..k,
\* k the length of the stored sequence, one score entry per sequence code,
\* and exactly k scored epochs.
C17_ClassWithinSequence ==
  GroupReturned =>
     LET k == Len(Self.sequence)
     IN /\ Entry("class") \in 1..k
        /\ Cardinality(result.out) = k + 1
        /\ Len(result.X) = k

\* C16: an evaluate or predict call applies the stored scaler without
\* fitting or replacing it (no scaler field, no scaler fit and no model
\* fit changes), an evaluate call changes no field of any classifier, and
\* an evaluate that directly follows an evaluate on the same classifier
\* ends the same way.
C16_ScalerFittedOnlyInTrain ==
  [][(last'.op \in {"evaluate", "predict"}) =>
       /\ \A c \in Instances : inst'[c].scaler = inst[c].scaler
       /\ default_scaler' = default_scaler
       /\ models' = models
       /\ last'.op = "evaluate" => inst' = inst
       /\ (last'.op = "evaluate" /\ last.op = "evaluate" /\ last'.self = last.self) =>
            (last'.outcome = last.outcome /\ last'.err = last.err)]_vars
\* C16 witness: an evaluate that returned after applying a scaler that the
\* other classifier fitted last
C16_Witness ==
  /\ last.op = "evaluate"
  /\ last.outcome = "returned"
  /\ Self.scaler = "default"
  /\ default_scaler \in Instances \ {last.self}

\* C18: once a stop call has returned, run handles no further request,
\* run never uses a server that stop has cleared or closed, and
\* send_message sends nothing, under every interleaving of the run thread
\* with the calling thread.
C18_StopIsFinal ==
  /\ ~osc.handled_after_stop
  /\ ~osc.used_cleared
  /\ ~osc.sent_after_stop
====
